---- MODULE Spec2Model ----
(***************************************************************************)
(* Read-state tools of the Google Chat MCP server                          *)
(* (src/providers/google_chat/tools/read_state_tools.py) and the API       *)
(* functions under them (src/providers/google_chat/api/read_state.py).     *)
(*                                                                         *)
(* The remote service holds one lastReadTime per space.  A tool call runs  *)
(* from one await to the next: every tool action below is the code between *)
(* two awaits of a tool coroutine, the remote answer being drawn when the  *)
(* await returns.                                                          *)
(*                                                                         *)
(* Spec           the two tools that report unread messages                *)
(* SpecSpaceTools the tools that work on one space, marking included       *)
(* SpecAll        the five tools together                                  *)
(* SpecApi        the API functions, each called by itself, with resource  *)
(*                names as character sequences                             *)
(***************************************************************************)
EXTENDS Integers, Sequences, FiniteSets, TLC

(* ------------------------------ bounds -------------------------------- *)
NumSpaces == 2      \* spaces the remote service knows
MaxMsgs == 2        \* messages one listing returns at most
MaxBeyond == 1      \* messages a space holds beyond the returned page
MaxTime == 2        \* instants after the Unix epoch, in ticks
MaxCap == 2         \* largest max_results a caller passes
MaxNow == 3         \* instants at which a space is marked as read
TicksPerMs == 3     \* instants (ticks) in one millisecond

(* ------------------------- program constants -------------------------- *)
PreviewLen == 100   \* text[:100]
AggPageSize == 20   \* page_size=20 of the aggregator's listing

Spaces == 1..NumSpaces

(* --------------------------- timestamps ------------------------------- *)
(* A timestamp string as the remote service sends it: absent (None, a     *)
(* missing key or the empty string: what Python reads as false), an RFC    *)
(* 3339 UTC string "...Z" at tick t after the epoch, or a string that is   *)
(* no ISO 8601 timestamp.                                                  *)
NoneStr == [fmt |-> "none", t |-> 0]
BadStr == [fmt |-> "bad", t |-> 0]
ZStr(t) == [fmt |-> "Z", t |-> t]
\* the literal "1970-01-01T00:00:00.000Z"
EpochStr == ZStr(0)

\* a parsed datetime is its instant; NoDt is Python's None
NoDt == -1

\* a parser reading whatever it is given as some instant (a mutant)
ParseTimestampLenient(timestamp_str) ==
    IF timestamp_str.fmt = "none" THEN NoDt ELSE timestamp_str.t
\* _parse_timestamp: None for a falsy string, the instant of "...Z" (read
\* as "+00:00"), None when datetime.fromisoformat raises ValueError.
ParseTimestamp(timestamp_str) ==
    IF timestamp_str.fmt = "none" THEN NoDt
    ELSE IF timestamp_str.fmt = "Z" THEN timestamp_str.t
    ELSE NoDt

Min(a, b) == IF a < b THEN a ELSE b
Max(a, b) == IF a > b THEN a ELSE b

(* ----------------------------- messages ------------------------------- *)
\* A text is a run of the characters c1 c2 c3 ... of one long string: the
\* characters numbered lo..hi (none when hi < lo).  Text(n) is its first n.
Text(n) == [lo |-> 1, hi |-> n]
TextLen(text) == IF text.hi < text.lo THEN 0 ELSE text.hi - text.lo + 1
\* text[:n] for n >= 0
TextPrefix(text, n) == [lo |-> text.lo, hi |-> Min(text.hi, text.lo + n - 1)]
\* message.get('text', ''): empty, short, longer than the preview
Texts == {Text(0), Text(3), Text(PreviewLen + 1)}
CreateTimes == {NoneStr, BadStr} \cup {ZStr(t) : t \in 1..MaxTime}
Message == [createTime : CreateTimes, text : Texts]
LastReadTimes == {NoneStr, BadStr} \cup {ZStr(t) : t \in 1..MaxTime}

SeqUpTo(S, n) == UNION {[1..k -> S] : k \in 0..n}
\* what one call of list_space_messages can return, and what the space can
\* hold after that page
Pages == SeqUpTo(Message, MaxMsgs)
Rests == SeqUpTo(Message, MaxBeyond)

\* seq[:n] of Python
Prefix(seq, n) ==
    IF n >= 0 THEN SubSeq(seq, 1, Min(n, Len(seq)))
    ELSE SubSeq(seq, 1, Max(Len(seq) + n, 0))

(* ------------------------- resource names ----------------------------- *)
\* A name is a Python str: the sequence of its characters.
SpacesSlash == <<"s", "p", "a", "c", "e", "s", "/">>
ThreadsSlash == <<"t", "h", "r", "e", "a", "d", "s", "/">>
SlashThreadsSlash == <<"/">> \o ThreadsSlash
UsersMe == <<"u", "s", "e", "r", "s", "/", "m", "e">>
SlashSpaceReadState ==
    <<"/", "s", "p", "a", "c", "e", "R", "e", "a", "d", "S", "t", "a", "t", "e">>
SlashThreadReadState ==
    <<"/", "t", "h", "r", "e", "a", "d", "R", "e", "a", "d", "S", "t", "a", "t", "e">>

\* s.startswith(p)
StartsWith(s, p) == Len(s) >= Len(p) /\ SubSeq(s, 1, Len(p)) = p
\* s.split('/')[-1]: what follows the last '/', the whole of s without one
LastSegment(s) ==
    LET slashes == {i \in 1..Len(s) : s[i] = "/"}
        k == IF slashes = {} THEN 0
             ELSE CHOOSE i \in slashes : \A j \in slashes : j <= i
    IN  SubSeq(s, k + 1, Len(s))

\* the prefix put in front whatever the name is (a mutant)
NormalizeAlwaysPrefix(space_name) == SpacesSlash \o space_name
\* _normalize_space_name
NormalizeSpaceName(space_name) ==
    IF ~StartsWith(space_name, SpacesSlash)
    THEN SpacesSlash \o space_name
    ELSE space_name

\* get_thread_read_state, lines 138-142: thread_name after normalization,
\* space_name being normalized already
NormalizeThreadName(space_name, thread_name) ==
    IF ~StartsWith(thread_name, SpacesSlash)
    THEN IF StartsWith(thread_name, ThreadsSlash)
         THEN space_name \o <<"/">> \o thread_name
         ELSE space_name \o SlashThreadsSlash \o thread_name
    ELSE thread_name

\* f"{user_id}/{space_name}/spaceReadState"
SpaceReadStateResource(user_id, space_name) ==
    user_id \o <<"/">> \o space_name \o SlashSpaceReadState
\* f"{user_id}/{space_name}/threads/{thread_name.split('/')[-1]}/threadReadState"
ThreadReadStateResource(user_id, space_name, thread_name) ==
    user_id \o <<"/">> \o space_name \o SlashThreadsSlash
        \o LastSegment(thread_name) \o SlashThreadReadState

\* the id of the i-th space of the remote service: "A", "AA", ...
SpaceId(i) == [k \in 1..i |-> "A"]
\* the space a read-state resource name stands for, 0 when it names none
SpaceOfResource(resource_name) ==
    LET named == {i \in Spaces :
                     resource_name =
                         SpaceReadStateResource(UsersMe, SpacesSlash \o SpaceId(i))}
    IN  IF named = {} THEN 0 ELSE CHOOSE i \in named : TRUE

\* datetime.now(timezone.utc).strftime('%Y-%m-%dT%H:%M:%S.%f')[:-3] + 'Z':
\* the instant `now` written with its milliseconds, the digits below dropped
NowStamp(now) == ZStr(now - (now % TicksPerMs))

\* the submitted time stored for every space (a mutant)
StoreEverywhere(read_states, s, submitted) == [x \in Spaces |-> submitted]
\* updateSpaceReadState(name=..., updateMask="lastReadTime", body=...) as the
\* service carries it out: the read state of the named space is replaced
StoreReadState(read_states, s, submitted) == [read_states EXCEPT ![s] = submitted]

(* ------------------------ the unread classifier ----------------------- *)
\* the test of lines 169-172 / 320-323 with >= for > (a mutant)
IsUnreadGeq(message, last_read_dt) ==
    /\ message.createTime # NoneStr
    /\ ParseTimestamp(message.createTime) # NoDt
    /\ last_read_dt # NoDt
    /\ ParseTimestamp(message.createTime) >= last_read_dt
\* the test letting through a createTime that did not parse (a mutant)
IsUnreadUnparsed(message, last_read_dt) ==
    /\ message.createTime # NoneStr
    /\ last_read_dt # NoDt
    /\ \/ ParseTimestamp(message.createTime) = NoDt
       \/ ParseTimestamp(message.createTime) > last_read_dt
\* if create_time: create_dt = _parse_timestamp(create_time)
\*     if create_dt and last_read_dt: if create_dt > last_read_dt
IsUnread(message, last_read_dt) ==
    /\ message.createTime # NoneStr
    /\ ParseTimestamp(message.createTime) # NoDt
    /\ last_read_dt # NoDt
    /\ ParseTimestamp(message.createTime) > last_read_dt

\* the read state's value kept as it came (a mutant)
NoDefaultLastRead(lrt) == lrt
\* last_read_time after "if not last_read_time: last_read_time = epoch"
DefaultLastRead(lrt) ==
    IF lrt = NoneStr THEN EpochStr ELSE lrt

\* the loop of lines 166-173: unread_messages, in listing order
RECURSIVE UnreadFrom(_, _, _)
UnreadFrom(all_messages, last_read_dt, i) ==
    IF i > Len(all_messages) THEN <<>>
    ELSE (IF IsUnread(all_messages[i], last_read_dt)
          THEN <<all_messages[i]>> ELSE <<>>)
         \o UnreadFrom(all_messages, last_read_dt, i + 1)
UnreadMessages(all_messages, last_read_dt) ==
    UnreadFrom(all_messages, last_read_dt, 1)

\* has_more of line 176
HasMore(all_messages, unread_messages, mr) ==
    Len(all_messages) >= mr /\ Len(unread_messages) = mr

(* ---------------------- the aggregator's helpers ---------------------- *)
\* a preview: None, or a run of the text followed or not by '...'
NoPreview == [present |-> FALSE, text |-> Text(0), ellipsis |-> FALSE]
\* the preview without the '...' marker (a mutant)
PreviewNoEllipsis(text) ==
    [present |-> TRUE,
     text |-> TextPrefix(text, PreviewLen),
     ellipsis |-> FALSE]
\* text[:100] + ('...' if len(text) > 100 else '')
PreviewOf(text) ==
    [present |-> TRUE,
     text |-> TextPrefix(text, PreviewLen),
     ellipsis |-> TextLen(text) > PreviewLen]

\* the turn keeping the time of the last unread message (a mutant)
CountStepLast(acc, message, last_read_dt) ==
    IF IsUnread(message, last_read_dt)
    THEN [unread_count |-> acc.unread_count + 1,
          latest_message_time |-> message.createTime,
          latest_message_preview |->
              IF TextLen(message.text) > 0
              THEN PreviewOf(message.text) ELSE acc.latest_message_preview]
    ELSE acc
\* one turn of the loop of lines 318-329 on the running
\* (unread_count, latest_message_time, latest_message_preview)
CountStep(acc, message, last_read_dt) ==
    IF IsUnread(message, last_read_dt)
    THEN [unread_count |-> acc.unread_count + 1,
          latest_message_time |->
              IF acc.latest_message_time = NoneStr
              THEN message.createTime ELSE acc.latest_message_time,
          latest_message_preview |->
              IF acc.latest_message_time = NoneStr /\ TextLen(message.text) > 0
              THEN PreviewOf(message.text) ELSE acc.latest_message_preview]
    ELSE acc

RECURSIVE CountFrom(_, _, _, _)
CountFrom(msgs, last_read_dt, i, acc) ==
    IF i > Len(msgs) THEN acc
    ELSE CountFrom(msgs, last_read_dt, i + 1, CountStep(acc, msgs[i], last_read_dt))
\* lines 314-329: the count, the latest time and the preview of one space
CountUnread(msgs, last_read_dt) ==
    CountFrom(msgs, last_read_dt, 1,
              [unread_count |-> 0, latest_message_time |-> NoneStr,
               latest_message_preview |-> NoPreview])

\* space.get('spaceType', 'SPACE')
SpaceTypeOf(space) == IF space.spaceType = "none" THEN "SPACE" ELSE space.spaceType

\* no filter at all (a mutant)
IncludedAlways(space, dms, spcs) == TRUE
\* the filter of lines 285-288: TRUE when the loop does not `continue`
Included(space, dms, spcs) ==
    /\ ~(SpaceTypeOf(space) = "DIRECT_MESSAGE" /\ ~dms)
    /\ ~(SpaceTypeOf(space) # "DIRECT_MESSAGE" /\ ~spcs)

\* the dict of lines 333-341
Summary(space, lrt, c) ==
    [space_name |-> space.name,
     display_name |-> space.displayName,
     space_type |-> SpaceTypeOf(space),
     last_read_time |-> lrt,
     unread_count |-> c.unread_count,
     latest_message_time |-> c.latest_message_time,
     preview |-> c.latest_message_preview]

\* inserting before the first summary that is not larger: an unstable sort
InsertUnstable(sorted, x) ==
    LET keep == {i \in 1..Len(sorted) : sorted[i].unread_count > x.unread_count}
        n == Cardinality(keep)
    IN  SubSeq(sorted, 1, n) \o <<x>> \o SubSeq(sorted, n + 1, Len(sorted))
\* x placed after every summary whose count is at least x's: what a stable
\* sort on the descending key does with the next element
InsertDesc(sorted, x) ==
    LET keep == {i \in 1..Len(sorted) : sorted[i].unread_count >= x.unread_count}
        n == Cardinality(keep)
    IN  SubSeq(sorted, 1, n) \o <<x>> \o SubSeq(sorted, n + 1, Len(sorted))

RECURSIVE SortFrom(_, _, _)
SortFrom(convs, i, sorted) ==
    IF i > Len(convs) THEN sorted
    ELSE SortFrom(convs, i + 1, InsertDesc(sorted, convs[i]))
\* list.sort(key=lambda x: x['unread_count'], reverse=True): stable
SortByUnread(convs) == SortFrom(convs, 1, <<>>)

(* ------------------------------- state -------------------------------- *)
VARIABLES
    spaceReadState,             \* remote: lastReadTime of every space
    pc,                         \* the await the running tool is suspended at
    space_name, max_results,    \* arguments of the running tool
    include_dms, include_spaces,
    all_spaces, idx,            \* the listing and the loop's position in it
    total_scanned,
    conversations_with_unread,
    last_read_time,             \* as defaulted to the epoch
    messages,                   \* all_messages / messages: the page returned
    beyond,                     \* what the space holds after that page
    counted,                    \* unread_count, latest_message_time, preview
    result,                     \* what the tool returned
    emitted,                    \* history: the summaries appended, untruncated
    scan,                       \* history: how each scanned space ended
    calls,                      \* history: the calls the running tool issued
    marked_at,                  \* history: the instant each space was marked read
    api                         \* the last call of an API function, by itself

vars == <<spaceReadState, pc, space_name, max_results, include_dms,
          include_spaces, all_spaces, idx, total_scanned,
          conversations_with_unread, last_read_time, messages, beyond,
          counted, result, emitted, scan, calls, marked_at, api>>

NoResult == [kind |-> "none"]
Raised == [kind |-> "error"]
NoCount == [unread_count |-> 0, latest_message_time |-> NoneStr,
            latest_message_preview |-> NoPreview]
\* no API function was called by itself
NoApi == [fn |-> "none"]

\* the log after the tool awaits one more call
Issued(log, op, space) ==
    Append(log, [op |-> op, space |-> space, status |-> "pending"])
\* the log after the awaited call returned or raised
Closed(log, status) ==
    [log EXCEPT ![Len(log)] = [@ EXCEPT !.status = status]]

\* spaceType as listed: a direct message, or the key missing
SpaceTypes == {"DIRECT_MESSAGE", "none"}
\* what list_chat_spaces can return: the first k spaces, each of some type
Listings ==
    UNION {{[i \in 1..k |-> [name |-> i, displayName |-> i, spaceType |-> ty[i]]] :
                ty \in [1..k -> SpaceTypes]} : k \in 0..NumSpaces}

\* no tool is running: arguments and locals hold nothing
Idle ==
    /\ pc = "idle"
    /\ space_name = 0 /\ max_results = 0
    /\ include_dms = FALSE /\ include_spaces = FALSE
    /\ all_spaces = <<>> /\ idx = 0 /\ total_scanned = 0
    /\ conversations_with_unread = <<>>
    /\ last_read_time = NoneStr /\ messages = <<>> /\ beyond = <<>>
    /\ counted = NoCount
    /\ result = NoResult
    /\ emitted = <<>> /\ scan = <<>>
    /\ calls = <<>>

Init ==
    /\ spaceReadState \in [Spaces -> LastReadTimes]
    /\ marked_at = [s \in Spaces |-> 0]
    /\ api = NoApi
    /\ Idle

(* ----------------------- get_unread_messages_tool --------------------- *)
\* the call, up to the await of get_space_read_state (lines 141-146)
GUM_Call(s, mr) ==
    /\ pc = "idle"
    /\ pc' = "gum_read_state"
    /\ space_name' = s
    /\ max_results' = mr
    /\ UNCHANGED <<spaceReadState, include_dms, include_spaces, all_spaces, idx,
                   total_scanned, conversations_with_unread, last_read_time,
                   messages, beyond, counted, result, emitted, scan>>
    /\ calls' = Issued(calls, "get_space_read_state", s)
    /\ UNCHANGED <<marked_at, api>>

\* get_space_read_state returns; up to the await of list_space_messages
\* (lines 146-156)
GUM_ReadState ==
    /\ pc = "gum_read_state"
    /\ last_read_time' = DefaultLastRead(spaceReadState[space_name])
    /\ pc' = "gum_list_messages"
    /\ UNCHANGED <<spaceReadState, space_name, max_results, include_dms,
                   include_spaces, all_spaces, idx, total_scanned,
                   conversations_with_unread, messages, beyond, counted, result, emitted, scan>>
    /\ calls' = Issued(Closed(calls, "returned"), "list_space_messages", space_name)
    /\ UNCHANGED <<marked_at, api>>

\* either await raises: the exception leaves the tool
GUM_Raise ==
    /\ pc \in {"gum_read_state", "gum_list_messages"}
    /\ pc' = "failed"
    /\ result' = Raised
    /\ UNCHANGED <<spaceReadState, space_name, max_results, include_dms,
                   include_spaces, all_spaces, idx, total_scanned,
                   conversations_with_unread, last_read_time, messages, beyond,
                   counted, emitted, scan>>
    /\ calls' = Closed(calls, "failed")
    /\ UNCHANGED <<marked_at, api>>

\* the dict of lines 184-191
UnreadResult(s, lrt, all_messages, mr) ==
    LET unread_messages == UnreadMessages(all_messages, ParseTimestamp(lrt))
    IN  [kind |-> "unread_messages",
         space_name |-> s,
         space_display_name |-> IF Len(all_messages) > 0 THEN s ELSE 0,
         last_read_time |-> lrt,
         unread_count |-> Len(unread_messages),
         messages |-> unread_messages,
         has_more |-> HasMore(all_messages, unread_messages, mr)]

\* list_space_messages returns a page of at most page_size = max_results
\* messages, the space holding `rest` after it; lines 163-191 run to the return
GUM_ListMessages ==
    /\ pc = "gum_list_messages"
    /\ \E page \in Pages, rest \in Rests :
           /\ Len(page) <= max_results
           /\ (Len(page) < max_results => rest = <<>>)
           /\ messages' = page
           /\ beyond' = rest
           /\ result' = UnreadResult(space_name, last_read_time, page, max_results)
    /\ pc' = "done"
    /\ UNCHANGED <<spaceReadState, space_name, max_results, include_dms,
                   include_spaces, all_spaces, idx, total_scanned,
                   conversations_with_unread, last_read_time, counted, emitted,
                   scan>>
    /\ calls' = Closed(calls, "returned")
    /\ UNCHANGED <<marked_at, api>>

(* -------------------- get_unread_conversations_tool ------------------- *)
\* the last space the filter keeps, not the next one (a mutant)
NextIncludedLast(listing, i, dms, spcs) ==
    LET keep == {j \in i..Len(listing) : Included(listing[j], dms, spcs)}
    IN  IF keep = {} THEN 0 ELSE CHOOSE j \in keep : \A k \in keep : j >= k
\* the first space at or after position i that the filter keeps, 0 if none
NextIncluded(listing, i, dms, spcs) ==
    LET keep == {j \in i..Len(listing) : Included(listing[j], dms, spcs)}
    IN  IF keep = {} THEN 0 ELSE CHOOSE j \in keep : \A k \in keep : j <= k

\* lines 347-355 without the cut (a mutant)
AggResultNoCut(total, convs, mr) ==
    [kind |-> "unread_conversations",
     total_spaces_scanned |-> total,
     conversations_with_unread |-> Len(convs),
     conversations |-> SortByUnread(convs)]
\* lines 347-355: sort, cut to max_results, return
AggResult(total, convs, mr) ==
    LET cut == Prefix(SortByUnread(convs), mr)
    IN  [kind |-> "unread_conversations",
         total_spaces_scanned |-> total,
         conversations_with_unread |-> Len(cut),
         conversations |-> cut]

\* the loop from position i on, up to its next await (the filter, the
\* counter, lines 279-294) or, the listing exhausted, up to the return.
\* lrt, page and c are what the turn that just ended left in last_read_time,
\* messages and (unread_count, latest_message_time, latest_message_preview);
\* the next turn assigns each of them before it reads it, so the model keeps
\* them only when the loop is over.  log is the log of calls once the call
\* that just ended is closed.
AggGoOn(listing, i, convs, lrt, page, c, log) ==
    LET j == NextIncluded(listing, i, include_dms, include_spaces)
    IN  IF j # 0
        THEN /\ idx' = j
             /\ calls' = Issued(log, "get_space_read_state", listing[j].name)
             /\ total_scanned' = total_scanned + 1
             /\ conversations_with_unread' = convs
             /\ pc' = "agg_read_state"
             /\ result' = result
             /\ last_read_time' = NoneStr
             /\ messages' = <<>>
             /\ counted' = NoCount
        ELSE /\ idx' = Len(listing) + 1
             /\ calls' = log
             /\ total_scanned' = total_scanned
             /\ conversations_with_unread' = Prefix(SortByUnread(convs), max_results)
             /\ pc' = "done"
             /\ result' = AggResult(total_scanned, convs, max_results)
             /\ last_read_time' = lrt
             /\ messages' = page
             /\ counted' = c

\* the call, up to the await of list_chat_spaces (line 273)
Agg_Call(dms, spcs, mr) ==
    /\ pc = "idle"
    /\ pc' = "agg_list_spaces"
    /\ include_dms' = dms
    /\ include_spaces' = spcs
    /\ max_results' = mr
    /\ UNCHANGED <<spaceReadState, space_name, all_spaces, idx, total_scanned,
                   conversations_with_unread, last_read_time, messages, beyond,
                   counted, result, emitted, scan>>
    /\ calls' = Issued(calls, "list_chat_spaces", 0)
    /\ UNCHANGED <<marked_at, api>>

\* list_chat_spaces returns (lines 273-277), and the loop starts
Agg_ListSpaces ==
    /\ pc = "agg_list_spaces"
    /\ \E listing \in Listings :
           /\ all_spaces' = listing
           /\ AggGoOn(listing, 1, <<>>, last_read_time, messages, counted,
                      Closed(calls, "returned"))
    /\ UNCHANGED <<spaceReadState, space_name, max_results, include_dms,
                   include_spaces, beyond, emitted, scan>>
    /\ UNCHANGED <<marked_at, api>>

\* list_chat_spaces raises: nothing catches it
Agg_ListSpacesRaise ==
    /\ pc = "agg_list_spaces"
    /\ pc' = "failed"
    /\ result' = Raised
    /\ UNCHANGED <<spaceReadState, space_name, max_results, include_dms,
                   include_spaces, all_spaces, idx, total_scanned,
                   conversations_with_unread, last_read_time, messages, beyond,
                   counted, emitted, scan>>
    /\ calls' = Closed(calls, "failed")
    /\ UNCHANGED <<marked_at, api>>

\* get_space_read_state returns for the space at idx (lines 294-304)
Agg_ReadState ==
    /\ pc = "agg_read_state"
    /\ last_read_time' = DefaultLastRead(spaceReadState[all_spaces[idx].name])
    /\ pc' = "agg_list_messages"
    /\ UNCHANGED <<spaceReadState, space_name, max_results, include_dms,
                   include_spaces, all_spaces, idx, total_scanned,
                   conversations_with_unread, messages, beyond, counted, result,
                   emitted, scan>>
    /\ calls' = Issued(Closed(calls, "returned"), "list_space_messages",
                     all_spaces[idx].name)
    /\ UNCHANGED <<marked_at, api>>

\* the list an except clause that dropped it would leave (a mutant)
AfterErrorDropped(convs) == <<>>
\* except Exception: log, continue (lines 343-345): the list is kept
AfterError(convs) == convs

\* get_space_read_state or list_space_messages raises for the space at idx
Agg_SpaceRaise ==
    /\ pc \in {"agg_read_state", "agg_list_messages"}
    /\ scan' = Append(scan, [name |-> all_spaces[idx].name,
                             outcome |-> IF pc = "agg_read_state"
                                         THEN "read_state_raised"
                                         ELSE "list_raised",
                             unread_count |-> 0])
    /\ emitted' = AfterError(emitted)
    /\ AggGoOn(all_spaces, idx + 1, AfterError(conversations_with_unread),
               last_read_time, messages, counted, Closed(calls, "failed"))
    /\ UNCHANGED <<spaceReadState, space_name, max_results, include_dms,
                   include_spaces, all_spaces, beyond>>
    /\ UNCHANGED <<marked_at, api>>

\* lines 331-341: the list after the summary, if any, is appended
WithSummary(convs, space, lrt, c) ==
    IF c.unread_count > 0 THEN Append(convs, Summary(space, lrt, c)) ELSE convs

\* list_space_messages returns a page for the space at idx (lines 304-341)
Agg_ListMessages ==
    /\ pc = "agg_list_messages"
    /\ \E page \in Pages :
         /\ Len(page) <= AggPageSize
         /\ LET c == CountUnread(page, ParseTimestamp(last_read_time))
                convs == WithSummary(conversations_with_unread, all_spaces[idx],
                                     last_read_time, c)
            IN  /\ emitted' = WithSummary(emitted, all_spaces[idx], last_read_time, c)
                /\ scan' = Append(scan, [name |-> all_spaces[idx].name,
                                         outcome |-> "checked",
                                         unread_count |-> c.unread_count])
                /\ AggGoOn(all_spaces, idx + 1, convs, last_read_time, page, c,
                           Closed(calls, "returned"))
    /\ UNCHANGED <<spaceReadState, space_name, max_results, include_dms,
                   include_spaces, all_spaces, beyond>>
    /\ UNCHANGED <<marked_at, api>>

(* ----------------------- mark_space_as_read_tool ---------------------- *)
\* the call, up to the await of update_space_read_state (lines 511-516)
Mark_Call(s) ==
    /\ pc = "idle"
    /\ pc' = "mark_update"
    /\ space_name' = s
    /\ calls' = Issued(calls, "update_space_read_state", s)
    /\ UNCHANGED <<spaceReadState, max_results, include_dms, include_spaces,
                   all_spaces, idx, total_scanned, conversations_with_unread,
                   last_read_time, messages, beyond, counted, result, emitted,
                   scan, marked_at, api>>

\* the dict of lines 518-522
MarkResult(s, read_state) ==
    [kind |-> "marked", space_name |-> s,
     last_read_time |-> read_state.lastReadTime, success |-> TRUE]

\* update_space_read_state returns: it submitted the stamp of the instant
\* `now` it read (api lines 203-218), the service stored it and answered with
\* the read state it holds
Mark_Update ==
    /\ pc = "mark_update"
    /\ \E now \in 1..MaxNow :
         /\ spaceReadState' = StoreReadState(spaceReadState, space_name, NowStamp(now))
         /\ marked_at' = [marked_at EXCEPT ![space_name] = now]
         /\ result' = MarkResult(space_name, [lastReadTime |-> NowStamp(now)])
    /\ pc' = "done"
    /\ calls' = Closed(calls, "returned")
    /\ UNCHANGED <<space_name, max_results, include_dms, include_spaces,
                   all_spaces, idx, total_scanned, conversations_with_unread,
                   last_read_time, messages, beyond, counted, emitted, scan, api>>

(* ---------------------- get_space_read_state_tool --------------------- *)
\* the call, up to the await of get_space_read_state (lines 582-587)
GSRS_Call(s) ==
    /\ pc = "idle"
    /\ pc' = "gsrs_read_state"
    /\ space_name' = s
    /\ calls' = Issued(calls, "get_space_read_state", s)
    /\ UNCHANGED <<spaceReadState, max_results, include_dms, include_spaces,
                   all_spaces, idx, total_scanned, conversations_with_unread,
                   last_read_time, messages, beyond, counted, result, emitted,
                   scan, marked_at, api>>

\* lines 592-612: "Never read" unless the lastReadTime parses, else how long
\* ago it was
FormattedLastRead(lrt) ==
    IF lrt = NoneStr THEN "Never read"
    ELSE IF ParseTimestamp(lrt) = NoDt THEN "Never read"
    ELSE "ago"

\* get_space_read_state returns; lines 589-619 run to the return
GSRS_ReadState ==
    /\ pc = "gsrs_read_state"
    /\ result' = [kind |-> "read_state", space_name |-> space_name,
                  last_read_time |-> spaceReadState[space_name],
                  formatted_last_read |-> FormattedLastRead(spaceReadState[space_name])]
    /\ pc' = "done"
    /\ calls' = Closed(calls, "returned")
    /\ UNCHANGED <<spaceReadState, space_name, max_results, include_dms,
                   include_spaces, all_spaces, idx, total_scanned,
                   conversations_with_unread, last_read_time, messages, beyond,
                   counted, emitted, scan, marked_at, api>>

(* ------------------------ find_dm_with_user_tool ---------------------- *)
\* the call, up to the await of find_direct_message_space (line 427)
FDM_Call ==
    /\ pc = "idle"
    /\ pc' = "fdm_find"
    /\ calls' = Issued(calls, "find_direct_message_space", 0)
    /\ UNCHANGED <<spaceReadState, space_name, max_results, include_dms,
                   include_spaces, all_spaces, idx, total_scanned,
                   conversations_with_unread, last_read_time, messages, beyond,
                   counted, result, emitted, scan, marked_at, api>>

\* find_direct_message_space returns a space; lines 430-432
FDM_Found ==
    /\ pc = "fdm_find"
    /\ \E s \in Spaces, ty \in SpaceTypes :
         result' = [kind |-> "dm", name |-> s, spaceType |-> ty,
                    space_type |-> IF ty = "none" THEN "DIRECT_MESSAGE" ELSE ty]
    /\ pc' = "done"
    /\ calls' = Closed(calls, "returned")
    /\ UNCHANGED <<spaceReadState, space_name, max_results, include_dms,
                   include_spaces, all_spaces, idx, total_scanned,
                   conversations_with_unread, last_read_time, messages, beyond,
                   counted, emitted, scan, marked_at, api>>

\* the one await of mark_space_as_read_tool, get_space_read_state_tool or
\* find_dm_with_user_tool raises: the exception leaves the tool, the remote
\* state is as it was
Tool_Raise ==
    /\ pc \in {"mark_update", "gsrs_read_state", "fdm_find"}
    /\ pc' = "failed"
    /\ result' = Raised
    /\ calls' = Closed(calls, "failed")
    /\ UNCHANGED <<spaceReadState, space_name, max_results, include_dms,
                   include_spaces, all_spaces, idx, total_scanned,
                   conversations_with_unread, last_read_time, messages, beyond,
                   counted, emitted, scan, marked_at, api>>

(* ---------------------------------------------------------------------- *)
\* the caller takes the result (or the exception); the frame is gone
Return ==
    /\ pc \in {"done", "failed"}
    /\ pc' = "idle"
    /\ space_name' = 0 /\ max_results' = 0
    /\ include_dms' = FALSE /\ include_spaces' = FALSE
    /\ all_spaces' = <<>> /\ idx' = 0 /\ total_scanned' = 0
    /\ conversations_with_unread' = <<>>
    /\ last_read_time' = NoneStr /\ messages' = <<>> /\ beyond' = <<>>
    /\ counted' = NoCount
    /\ result' = NoResult
    /\ emitted' = <<>> /\ scan' = <<>>
    /\ UNCHANGED spaceReadState
    /\ calls' = <<>>
    /\ UNCHANGED <<marked_at, api>>

Next ==
    \/ \E s \in Spaces, mr \in 1..MaxCap : GUM_Call(s, mr)
    \/ GUM_ReadState
    \/ GUM_Raise
    \/ GUM_ListMessages
    \/ \E dms \in BOOLEAN, spcs \in BOOLEAN, mr \in 0..MaxCap : Agg_Call(dms, spcs, mr)
    \/ Agg_ListSpaces
    \/ Agg_ListSpacesRaise
    \/ Agg_ReadState
    \/ Agg_SpaceRaise
    \/ Agg_ListMessages
    \/ Return

\* the two tools that report unread messages
Spec == Init /\ [][Next]_vars

\* the tools that work on one space or one user, the marking tool among them
NextSpaceTools ==
    \/ \E s \in Spaces, mr \in 1..MaxCap : GUM_Call(s, mr)
    \/ GUM_ReadState
    \/ GUM_Raise
    \/ GUM_ListMessages
    \/ \E s \in Spaces : Mark_Call(s)
    \/ Mark_Update
    \/ \E s \in Spaces : GSRS_Call(s)
    \/ GSRS_ReadState
    \/ FDM_Call
    \/ FDM_Found
    \/ Tool_Raise
    \/ Return

SpecSpaceTools == Init /\ [][NextSpaceTools]_vars

\* the five tools together
NextAll ==
    \/ Next
    \/ \E s \in Spaces : Mark_Call(s)
    \/ Mark_Update
    \/ \E s \in Spaces : GSRS_Call(s)
    \/ GSRS_ReadState
    \/ FDM_Call
    \/ FDM_Found
    \/ Tool_Raise

SpecAll == Init /\ [][NextAll]_vars

(* ====================================================================== *)
(* The API functions (src/providers/google_chat/api/read_state.py), each   *)
(* called by itself.  A function runs from its call to its return or raise *)
(* in one step: it awaits nothing; api holds what it did until the caller  *)
(* takes it.  get_credentials() answers at each call with credentials or   *)
(* with nothing.                                                           *)
(* ====================================================================== *)
\* what a tool's frame and its history hold
toolVars == <<pc, space_name, max_results, include_dms, include_spaces,
              all_spaces, idx, total_scanned, conversations_with_unread,
              last_read_time, messages, beyond, counted, result, emitted, scan,
              calls>>

NoCredentials == "No valid credentials found. Please authenticate first."
\* the failure of the remote request itself
HttpError == "HttpError"
NoError == [prefix |-> "", detail |-> ""]
NoValue == [kind |-> "none"]

\* the arguments a caller can pass for a space: the bare id or the resource
\* name of a space, and names of no space
SpaceArgs ==
    {SpaceId(i) : i \in Spaces} \cup {SpacesSlash \o SpaceId(i) : i \in Spaces}
        \cup {<<>>, SpacesSlash, <<"s", "p", "a", "c", "e", "s">>,
              SpacesSlash \o SpacesSlash \o SpaceId(1), <<"/">> \o SpaceId(1)}
ThreadIds == {<<"T">>, <<"T", "T">>}
\* a thread as a bare id, as threads/{t}, as spaces/{s}/threads/{t}, or empty
ThreadArgs ==
    ThreadIds \cup {ThreadsSlash \o t : t \in ThreadIds}
        \cup {SpacesSlash \o SpaceId(i) \o SlashThreadsSlash \o t :
                  i \in Spaces, t \in ThreadIds}
        \cup {<<>>}
Emails == {"user@example.com"}

\* the test that lets every caller through (a mutant)
HasCredentialsAlways(creds) == TRUE
\* the negation of `if not creds`
HasCredentials(creds) == creds

\* the call as it starts: nothing normalized, nothing sent
ApiCall(fn, space_arg, thread_arg, creds, creds_again) ==
    [fn |-> fn, space_arg |-> space_arg, thread_arg |-> thread_arg,
     creds |-> creds, creds_again |-> creds_again,
     space_name |-> <<>>, requests |-> <<>>,
     raised |-> FALSE, error |-> NoError, value |-> NoValue]
\* except Exception as e: raise Exception(f"{prefix}: {str(e)}")
Raise(call, prefix, detail) ==
    [call EXCEPT !.raised = TRUE, !.error = [prefix |-> prefix, detail |-> detail]]

\* get_space_read_state; served is whether the remote service answers the
\* request, which it does only for a resource it knows
get_space_read_state(space_arg) ==
    /\ pc = "idle" /\ api = NoApi
    /\ \E creds \in BOOLEAN, creds_again \in BOOLEAN, served \in BOOLEAN :
         LET call == ApiCall("get_space_read_state", space_arg, <<>>, creds, creds_again)
             prefix == "Failed to get space read state"
             name == NormalizeSpaceName(space_arg)
             resource_name == SpaceReadStateResource(UsersMe, name)
             sent == <<[method |-> "getSpaceReadState", name |-> resource_name]>>
             s == SpaceOfResource(resource_name)
         IN  api' =
               IF ~HasCredentials(creds) THEN Raise(call, prefix, NoCredentials)
               ELSE IF ~HasCredentials(creds_again)
               THEN Raise([call EXCEPT !.space_name = name], prefix, NoCredentials)
               ELSE IF served /\ s # 0
               THEN [call EXCEPT !.space_name = name, !.requests = sent,
                                 !.value = [lastReadTime |-> spaceReadState[s]]]
               ELSE Raise([call EXCEPT !.space_name = name, !.requests = sent],
                          prefix, HttpError)
    /\ UNCHANGED <<spaceReadState, marked_at>>
    /\ UNCHANGED toolVars

\* get_thread_read_state; the service keeps a lastReadTime per thread, which
\* the model draws
get_thread_read_state(space_arg, thread_arg) ==
    /\ pc = "idle" /\ api = NoApi
    /\ \E creds \in BOOLEAN, creds_again \in BOOLEAN, served \in BOOLEAN,
          lrt \in LastReadTimes :
         LET call == ApiCall("get_thread_read_state", space_arg, thread_arg,
                             creds, creds_again)
             prefix == "Failed to get thread read state"
             name == NormalizeSpaceName(space_arg)
             thread_name == NormalizeThreadName(name, thread_arg)
             resource_name == ThreadReadStateResource(UsersMe, name, thread_name)
             sent == <<[method |-> "getThreadReadState", name |-> resource_name]>>
         IN  api' =
               IF ~HasCredentials(creds) THEN Raise(call, prefix, NoCredentials)
               ELSE IF ~HasCredentials(creds_again)
               THEN Raise([call EXCEPT !.space_name = name], prefix, NoCredentials)
               ELSE IF served
               THEN [call EXCEPT !.space_name = name, !.requests = sent,
                                 !.value = [lastReadTime |-> lrt]]
               ELSE Raise([call EXCEPT !.space_name = name, !.requests = sent],
                          prefix, HttpError)
    /\ UNCHANGED <<spaceReadState, marked_at>>
    /\ UNCHANGED toolVars

\* update_space_read_state; lrt = NoneStr is last_read_time=None, now is the
\* instant datetime.now() reads; the service stores what is submitted
update_space_read_state(space_arg, lrt) ==
    /\ pc = "idle" /\ api = NoApi
    /\ \E creds \in BOOLEAN, creds_again \in BOOLEAN, served \in BOOLEAN,
          now \in 1..MaxNow :
         LET call == ApiCall("update_space_read_state", space_arg, <<>>,
                             creds, creds_again)
             prefix == "Failed to update space read state"
             name == NormalizeSpaceName(space_arg)
             resource_name == SpaceReadStateResource(UsersMe, name)
             submitted == IF lrt = NoneStr THEN NowStamp(now) ELSE lrt
             sent == <<[method |-> "updateSpaceReadState", name |-> resource_name,
                        updateMask |-> "lastReadTime",
                        body |-> [lastReadTime |-> submitted]]>>
             s == SpaceOfResource(resource_name)
         IN  IF HasCredentials(creds) /\ HasCredentials(creds_again) /\ served /\ s # 0
             THEN /\ api' = [call EXCEPT !.space_name = name, !.requests = sent,
                                         !.value = [lastReadTime |-> submitted]]
                  /\ spaceReadState' = StoreReadState(spaceReadState, s, submitted)
                  /\ marked_at' = [marked_at EXCEPT ![s] = IF lrt = NoneStr THEN now ELSE 0]
             ELSE /\ api' =
                        IF ~HasCredentials(creds) THEN Raise(call, prefix, NoCredentials)
                        ELSE IF ~HasCredentials(creds_again)
                        THEN Raise([call EXCEPT !.space_name = name], prefix, NoCredentials)
                        ELSE Raise([call EXCEPT !.space_name = name, !.requests = sent],
                                   prefix, HttpError)
                  /\ UNCHANGED <<spaceReadState, marked_at>>
    /\ UNCHANGED toolVars

\* find_direct_message_space: one credential test, no normalization
find_direct_message_space(user_email) ==
    /\ pc = "idle" /\ api = NoApi
    /\ \E creds \in BOOLEAN, served \in BOOLEAN, s \in Spaces :
         LET call == ApiCall("find_direct_message_space", <<>>, <<>>, creds, TRUE)
             prefix == <<"Failed to find DM space with user", user_email>>
             sent == <<[method |-> "findDirectMessage", name |-> <<"users/", user_email>>]>>
         IN  api' =
               IF ~HasCredentials(creds) THEN Raise(call, prefix, NoCredentials)
               ELSE IF served
               THEN [call EXCEPT !.requests = sent,
                                 !.value = [name |-> SpacesSlash \o SpaceId(s),
                                            spaceType |-> "DIRECT_MESSAGE"]]
               ELSE Raise([call EXCEPT !.requests = sent], prefix, HttpError)
    /\ UNCHANGED <<spaceReadState, marked_at>>
    /\ UNCHANGED toolVars

\* the caller takes what the function returned or raised
ApiReturn ==
    /\ api # NoApi
    /\ api' = NoApi
    /\ UNCHANGED <<spaceReadState, marked_at>>
    /\ UNCHANGED toolVars

NextApi ==
    \/ \E space_arg \in SpaceArgs : get_space_read_state(space_arg)
    \/ \E space_arg \in SpaceArgs, thread_arg \in ThreadArgs :
           get_thread_read_state(space_arg, thread_arg)
    \/ \E space_arg \in SpaceArgs, lrt \in {NoneStr, ZStr(1)} :
           update_space_read_state(space_arg, lrt)
    \/ \E user_email \in Emails : find_direct_message_space(user_email)
    \/ ApiReturn

SpecApi == Init /\ [][NextApi]_vars

(* ====================================================================== *)
(* Properties                                                             *)
(* ====================================================================== *)
GumDone == pc = "done" /\ result.kind = "unread_messages"
AggDone == pc = "done" /\ result.kind = "unread_conversations"

\* the running tool is get_unread_messages_tool (the one with a space_name)
GumFrame == space_name # 0

\* a createTime that parses
Parses(ts) == ts.fmt = "Z"
\* the message was created strictly after the instant of the timestamp r
CreatedAfter(message, r) == Parses(message.createTime) /\ message.createTime.t > r.t
\* the messages of a page created strictly after r, in the page's order
RECURSIVE After(_, _)
After(page, r) ==
    IF page = <<>> THEN <<>>
    ELSE (IF CreatedAfter(Head(page), r) THEN <<Head(page)>> ELSE <<>>)
         \o After(Tail(page), r)
HasUnparsed(page) == \E i \in 1..Len(page) : ~Parses(page[i].createTime)
Last(seq) == seq[Len(seq)]

\* C1: when get_unread_messages_tool returns and the space's lastReadTime R
\* parses, 'messages' is exactly the messages of the returned page created
\* strictly after R, in the page's order (one created at R is read), and
\* unread_count is their number.
C1_UnreadIsAfterLastRead ==
    (GumDone /\ Parses(spaceReadState[space_name])) =>
        /\ result.messages = After(messages, spaceReadState[space_name])
        /\ result.unread_count = Len(After(messages, spaceReadState[space_name]))
\* a page of two, one created at R and one after it: only the later is unread
C1_Witness ==
    /\ GumDone /\ Parses(spaceReadState[space_name])
    /\ Len(messages) = 2
    /\ messages[2].createTime = spaceReadState[space_name]
    /\ CreatedAfter(messages[1], spaceReadState[space_name])
    /\ result.unread_count = 1

\* C2: when the space's read state has no lastReadTime and every createTime of
\* the returned page parses, get_unread_messages_tool returns the whole page
\* as unread, in order, and unread_count is the page's length.
C2_AbsentLastReadAllUnread ==
    (GumDone /\ spaceReadState[space_name] = NoneStr /\ ~HasUnparsed(messages)) =>
        /\ result.messages = messages
        /\ result.unread_count = Len(messages)
C2_Witness ==
    /\ GumDone /\ spaceReadState[space_name] = NoneStr
    /\ Len(messages) = 2 /\ ~HasUnparsed(messages)
    /\ messages[1].createTime.t < messages[2].createTime.t
    /\ result.unread_count = 2

\* the instant a defaulted last_read_time stands for
ReadInstant(lrt) == IF lrt = NoneStr THEN EpochStr ELSE lrt
\* how many messages of the page were created after r
NumAfter(page, r) == Cardinality({i \in 1..Len(page) : CreatedAfter(page[i], r)})

\* C3: a message whose createTime is missing or does not parse is never among
\* the unread messages and does not make the tool fail, nor the aggregator skip
\* the space; with a lastReadTime that parses or is absent, the other messages
\* of the page are still classified by createTime > lastReadTime.
C3_UnparsedExcluded ==
    /\ (pc \in {"done", "failed"} /\ GumFrame /\ HasUnparsed(messages)) =>
          /\ GumDone
          /\ \A i \in 1..Len(result.messages) : Parses(result.messages[i].createTime)
          /\ spaceReadState[space_name] # BadStr =>
                result.messages = After(messages, ReadInstant(spaceReadState[space_name]))
    /\ (pc \in {"done", "failed"} /\ ~GumFrame /\ HasUnparsed(messages)) =>
          /\ AggDone
          /\ Last(scan).outcome = "checked"
          /\ spaceReadState[Last(scan).name] # BadStr =>
                Last(scan).unread_count =
                    NumAfter(messages, ReadInstant(spaceReadState[Last(scan).name]))
          /\ Last(scan).unread_count > 0 =>
                /\ Last(emitted).space_name = Last(scan).name
                /\ Last(emitted).unread_count = Last(scan).unread_count
C3_Witness ==
    /\ AggDone /\ Len(scan) = 2 /\ Len(messages) = 2
    /\ messages[1].createTime = BadStr
    /\ Parses(messages[2].createTime)
    /\ Last(scan).unread_count = 1

\* the scanned spaces whose check succeeded and found unread messages
UnreadSpaces ==
    {i \in 1..Len(scan) : scan[i].outcome = "checked" /\ scan[i].unread_count > 0}
\* where the summary of a space stands among the summaries appended
PosIn(convs, name) == CHOOSE k \in 1..Len(convs) : convs[k].space_name = name
Returned(name) ==
    \E i \in 1..Len(result.conversations) : result.conversations[i].space_name = name

\* C4: 'conversations' never has more than max_results entries, and has
\* exactly min(max_results, K) of them, K being the number of spaces that
\* passed the filter, were checked without error and had unread_count > 0.
C4_CapBoundsConversations ==
    AggDone =>
        /\ Len(result.conversations) <= max_results
        /\ Len(result.conversations) = Min(max_results, Cardinality(UnreadSpaces))
\* two spaces with unread messages and a cap of one
C4_Witness ==
    /\ AggDone /\ Cardinality(UnreadSpaces) = 2 /\ max_results = 1
    /\ Len(result.conversations) = 1

\* C5: 'conversations' is ordered by unread_count descending, summaries with
\* the same count in the order their spaces were scanned; the cut keeps a
\* prefix of that order, so an omitted space never has a larger count than a
\* returned one.
C5_SortedStablePrefix ==
    AggDone =>
        LET r == result.conversations
        IN  /\ \A i \in 1..Len(r) : \E k \in 1..Len(emitted) : emitted[k] = r[i]
            /\ \A i, j \in 1..Len(r) : i < j =>
                  \/ r[i].unread_count > r[j].unread_count
                  \/ /\ r[i].unread_count = r[j].unread_count
                     /\ PosIn(emitted, r[i].space_name) < PosIn(emitted, r[j].space_name)
            /\ \A k \in 1..Len(emitted) : ~Returned(emitted[k].space_name) =>
                  \A i \in 1..Len(r) :
                      \/ r[i].unread_count > emitted[k].unread_count
                      \/ /\ r[i].unread_count = emitted[k].unread_count
                         /\ PosIn(emitted, r[i].space_name) < k
\* two spaces with the same count, both returned, in scan order
C5_Witness ==
    /\ AggDone /\ Len(emitted) = 2 /\ Len(result.conversations) = 2
    /\ emitted[1].unread_count = emitted[2].unread_count
    /\ result.conversations[1].space_name = 1

\* the summaries appended are those of the spaces checked with unread
\* messages, in scan order, and every returned summary is one of them
SummariesMatchScan ==
    LET ok(e) == e.outcome = "checked" /\ e.unread_count > 0
        found == SelectSeq(scan, ok)
    IN  /\ Len(emitted) = Len(found)
        /\ \A k \in 1..Len(emitted) :
              /\ emitted[k].space_name = found[k].name
              /\ emitted[k].unread_count = found[k].unread_count
        /\ \A i \in 1..Len(result.conversations) :
              \E k \in 1..Len(emitted) : emitted[k] = result.conversations[i]
\* the step in which the fetch or the listing of a space raises
SpaceRaises ==
    /\ pc \in {"agg_read_state", "agg_list_messages"}
    /\ Len(scan') = Len(scan) + 1
    /\ scan'[Len(scan')].outcome # "checked"

\* C6: when the read-state fetch or the listing of a space raises, the scan
\* goes on or returns its result, the space adds no summary and the summaries
\* of the other spaces stay as they were: the result holds exactly the
\* summaries of the spaces checked with unread messages.
C6_SpaceFailureIsSkipped ==
    [][/\ SpaceRaises =>
             /\ pc' \in {"agg_read_state", "done"}
             /\ emitted' = emitted
             /\ pc' = "agg_read_state" =>
                   conversations_with_unread' = conversations_with_unread
             /\ pc' = "done" => AggDone'
       /\ AggDone' => SummariesMatchScan']_vars
\* the second space raises after the first gave a summary, which is returned
C6_Witness ==
    /\ AggDone /\ Len(scan) = 2
    /\ scan[1].outcome = "checked" /\ scan[1].unread_count > 0
    /\ scan[2].outcome = "read_state_raised"
    /\ Len(result.conversations) = 1
    /\ result.conversations[1].space_name = scan[1].name

\* the filter as the arguments describe it
PassesFilter(space) ==
    IF space.spaceType = "DIRECT_MESSAGE" THEN include_dms ELSE include_spaces

\* C7: total_spaces_scanned is the number of listed spaces that pass the
\* filter (direct messages with include_dms, every other space with
\* include_spaces), whether or not their check raised and whatever
\* max_results is.
C7_TotalCountsIncludedSpaces ==
    AggDone =>
        result.total_spaces_scanned =
            Cardinality({i \in 1..Len(all_spaces) : PassesFilter(all_spaces[i])})
\* of two listed spaces one is filtered out and the other's fetch raises
C7_Witness ==
    /\ AggDone /\ Len(all_spaces) = 2 /\ Len(scan) = 1
    /\ scan[1].outcome = "read_state_raised"
    /\ result.total_spaces_scanned = 1

\* C8: conversations_with_unread is the number of scanned spaces that have
\* unread messages, whatever max_results is (stated here for the calls that
\* ask for at least one conversation).
C8_CountsEveryUnreadSpace ==
    (AggDone /\ max_results >= 1) =>
        result.conversations_with_unread = Cardinality(UnreadSpaces)

\* the space's lastReadTime makes the message unread
UnreadIn(message, s) ==
    /\ spaceReadState[s] # BadStr
    /\ CreatedAfter(message, ReadInstant(spaceReadState[s]))

\* the page lists its messages newest first
NewestFirst(page) ==
    \A i, j \in 1..Len(page) :
        (i < j /\ Parses(page[i].createTime) /\ Parses(page[j].createTime)) =>
            page[i].createTime.t >= page[j].createTime.t

\* C9: has_more is true exactly when the space holds unread messages beyond
\* the ones returned; it is false when the space holds max_results messages,
\* all unread, and no more (stated for a space whose messages all have a
\* createTime that parses and come newest first, the order the tool asks for).
C9_HasMoreIffMoreUnread ==
    (GumDone /\ ~HasUnparsed(messages \o beyond) /\ NewestFirst(messages \o beyond)) =>
        (result.has_more <=> \E i \in 1..Len(beyond) : UnreadIn(beyond[i], space_name))

\* the greatest createTime among the page's messages created after r
LatestAfter(page, r) ==
    CHOOSE t \in {page[i].createTime.t : i \in {n \in 1..Len(page) : CreatedAfter(page[n], r)}} :
        \A i \in 1..Len(page) : CreatedAfter(page[i], r) => page[i].createTime.t <= t
\* the last turn of the loop checked a space, whose summary is returned;
\* messages is the page that turn was given
LastSpaceReturned ==
    /\ AggDone /\ Len(scan) > 0
    /\ Last(scan).outcome = "checked" /\ Last(scan).unread_count > 0
    /\ Returned(Last(scan).name)
\* the returned summary of the space scanned last
LastSummary ==
    result.conversations[PosIn(result.conversations, Last(scan).name)]
\* C10 as stated: the summary's latest_message_time is the greatest
\* createTime among the space's unread messages, in whatever order the
\* listing returns them (checked on the space scanned last, whose page the
\* state still holds).
C10_LatestInAnyOrder ==
    LastSpaceReturned =>
        /\ Parses(LastSummary.latest_message_time)
        /\ LastSummary.latest_message_time.t =
               LatestAfter(messages, ReadInstant(spaceReadState[Last(scan).name]))
\* C10 as amended: when the listing returns the messages newest first, the
\* summary's latest_message_time is the greatest createTime among the space's
\* unread messages.
C10_LatestWhenNewestFirst ==
    (LastSpaceReturned /\ NewestFirst(messages)) =>
        /\ Parses(LastSummary.latest_message_time)
        /\ LastSummary.latest_message_time.t =
               LatestAfter(messages, ReadInstant(spaceReadState[Last(scan).name]))
\* the second space scanned returns two unread messages, newest first
C10_Witness ==
    /\ LastSpaceReturned /\ NewestFirst(messages) /\ Len(scan) = 2
    /\ Len(messages) = 2 /\ Last(scan).unread_count = 2
    /\ messages[1].createTime.t > messages[2].createTime.t
    /\ LastSummary.latest_message_time = messages[1].createTime

\* the first message of the page that the space's lastReadTime makes unread
FirstUnread(page, s) == Head(After(page, ReadInstant(spaceReadState[s])))
\* some message of the page is unread and has a text
SomeUnreadHasText(page, s) ==
    \E i \in 1..Len(page) : UnreadIn(page[i], s) /\ TextLen(page[i].text) > 0
\* the preview the text of a message calls for: the text itself up to
\* PreviewLen characters, its first PreviewLen characters and '...' beyond
ShowsText(preview, text) ==
    /\ preview.present
    /\ TextLen(text) <= PreviewLen => (preview.text = text /\ ~preview.ellipsis)
    /\ TextLen(text) > PreviewLen =>
          /\ preview.text.lo = text.lo
          /\ TextLen(preview.text) = PreviewLen
          /\ preview.ellipsis

\* C11 as stated: the summary's preview is taken from the text of the first
\* unread message of the listing (whole up to 100 characters, cut to 100 and
\* followed by '...' beyond), and a space with an unread message that has a
\* non-empty text never gets an absent preview (checked on the space scanned
\* last).
C11_PreviewNeverAbsent ==
    LastSpaceReturned =>
        /\ TextLen(FirstUnread(messages, Last(scan).name).text) > 0 =>
              ShowsText(LastSummary.preview, FirstUnread(messages, Last(scan).name).text)
        /\ SomeUnreadHasText(messages, Last(scan).name) => LastSummary.preview.present
\* C11 as amended: the preview is absent when the first unread message of the
\* listing has an empty text, whatever the later unread messages hold;
\* otherwise it is that text, whole up to 100 characters, cut to its first 100
\* characters and followed by '...' beyond.
C11_PreviewOfFirstUnread ==
    LastSpaceReturned =>
        LET text == FirstUnread(messages, Last(scan).name).text
        IN  IF TextLen(text) = 0
            THEN LastSummary.preview = NoPreview
            ELSE ShowsText(LastSummary.preview, text)
\* the first unread message of the page, after one that is not unread, has
\* more than 100 characters: the preview is cut and marked
C11_Witness ==
    /\ LastSpaceReturned /\ Len(messages) = 2
    /\ ~UnreadIn(messages[1], Last(scan).name)
    /\ UnreadIn(messages[2], Last(scan).name)
    /\ TextLen(messages[2].text) = PreviewLen + 1
    /\ TextLen(messages[1].text) = 3
    /\ LastSummary.preview.ellipsis
    /\ TextLen(LastSummary.preview.text) = PreviewLen

\* the API function normalized a space name: its first credential test passed
Normalized ==
    /\ api.fn \in {"get_space_read_state", "get_thread_read_state",
                   "update_space_read_state"}
    /\ api.creds
\* the three ways a caller names the thread t of the space space_name
ThreadForms(name, t) == {t, ThreadsSlash \o t, name \o SlashThreadsSlash \o t}

\* C12: the space normalizer is idempotent and never fails: the name an API
\* function works with is the normalized argument, starts with 'spaces/' and
\* is left as it is by a second normalization, and with credentials the
\* request is always reached; the resource name get_thread_read_state asks
\* for is users/me/{space}/threads/{t}/threadReadState whether the thread came
\* as t, as threads/{t} or as spaces/{s}/threads/{t}.
C12_NormalizationIdempotent ==
    Normalized =>
        /\ api.space_name = NormalizeSpaceName(api.space_arg)
        /\ NormalizeSpaceName(api.space_name) = api.space_name
        /\ StartsWith(api.space_name, SpacesSlash)
        /\ api.creds_again => api.requests # <<>>
        /\ (api.fn = "get_thread_read_state" /\ api.requests # <<>>) =>
              \A t \in ThreadIds :
                  api.thread_arg \in ThreadForms(api.space_name, t) =>
                      api.requests[1].name =
                          UsersMe \o <<"/">> \o api.space_name \o SlashThreadsSlash
                              \o t \o SlashThreadReadState
\* a bare space id and a thread given as threads/T
C12_Witness ==
    /\ Normalized /\ api.fn = "get_thread_read_state"
    /\ api.space_arg = SpaceId(1)
    /\ api.thread_arg = ThreadsSlash \o <<"T">>
    /\ api.space_name = SpacesSlash \o SpaceId(1)
    /\ api.requests # <<>>
    /\ LastSegment(api.requests[1].name) = <<"t", "h", "r", "e", "a", "d", "R", "e", "a", "d", "S", "t", "a", "t", "e">>

\* C13: an API function that finds no credentials raises an error whose
\* message says so, sends no request, and leaves every space's read state as
\* it was.
C13_NoCredentialsFailsFirst ==
    [][(api'.fn # "none" /\ ~(api'.creds /\ api'.creds_again)) =>
           /\ api'.raised
           /\ api'.error.detail = NoCredentials
           /\ api'.requests = <<>>
           /\ api'.value = NoValue
           /\ spaceReadState' = spaceReadState]_vars
\* update_space_read_state without credentials, on a space that has a
\* lastReadTime
C13_Witness ==
    /\ api.fn = "update_space_read_state" /\ ~api.creds
    /\ api.space_arg = SpacesSlash \o SpaceId(1)
    /\ api.raised /\ api.requests = <<>>
    /\ spaceReadState[1] = ZStr(1)

\* C14: once mark_space_as_read_tool has marked a space at the instant T, a
\* following get_unread_messages_tool on that space works with the read state
\* the service holds at the call and classifies as read every message that
\* existed when the space was marked, that is every message created before T.
C14_MarkedThenOnlyLaterUnread ==
    (GumDone /\ marked_at[space_name] # 0) =>
        /\ result.last_read_time = spaceReadState[space_name]
        /\ \A i \in 1..Len(messages) :
              (Parses(messages[i].createTime)
                   /\ messages[i].createTime.t < marked_at[space_name]) =>
                  \A k \in 1..Len(result.messages) : result.messages[k] # messages[i]

\* the calls of the aggregator that followed the space listing
SpaceCalls == Tail(calls)
IsFetch(c) == c.op = "get_space_read_state"
\* the listed spaces the filter keeps, in listing order
IncludedNames ==
    LET kept(space) == PassesFilter(space)
        spaces == SelectSeq(all_spaces, kept)
    IN  [k \in 1..Len(spaces) |-> spaces[k].name]
\* the aggregator is running or has ended
AggFrame == calls # <<>> /\ calls[1].op = "list_chat_spaces"

\* C15: the aggregator awaits one call at a time: the space listing first,
\* then for each space the filter keeps, in listing order, the read-state
\* fetch and, once it has returned, the message listing of the same space; a
\* call is issued only when every earlier one has returned or failed, and no
\* message listing is issued for a space whose fetch failed or that the filter
\* excluded.
C15_CallsOneAtATimeInOrder ==
    AggFrame =>
        LET fetches == SelectSeq(SpaceCalls, IsFetch)
        IN  /\ \A i \in 1..(Len(calls) - 1) : calls[i].status # "pending"
            /\ calls[1].status # "returned" => Len(calls) = 1
            /\ Len(fetches) <= Len(IncludedNames)
            /\ \A k \in 1..Len(fetches) : fetches[k].space = IncludedNames[k]
            /\ pc = "done" => Len(fetches) = Len(IncludedNames)
            /\ \A i \in 1..Len(SpaceCalls) :
                  /\ SpaceCalls[i].op \in {"get_space_read_state", "list_space_messages"}
                  /\ SpaceCalls[i].op = "list_space_messages" =>
                        /\ i > 1
                        /\ SpaceCalls[i - 1].op = "get_space_read_state"
                        /\ SpaceCalls[i - 1].status = "returned"
                        /\ SpaceCalls[i - 1].space = SpaceCalls[i].space
                  /\ (SpaceCalls[i].op = "get_space_read_state" /\ i < Len(SpaceCalls)) =>
                        IF SpaceCalls[i].status = "returned"
                        THEN /\ SpaceCalls[i + 1].op = "list_space_messages"
                             /\ SpaceCalls[i + 1].space = SpaceCalls[i].space
                        ELSE SpaceCalls[i + 1].op = "get_space_read_state"
\* two spaces kept by the filter: the fetch of the first failed, so it was
\* not listed, then the second was fetched and listed
C15_Witness ==
    /\ AggDone /\ Len(all_spaces) = 2 /\ Len(calls) = 4
    /\ calls[2] = [op |-> "get_space_read_state", space |-> 1, status |-> "failed"]
    /\ calls[3] = [op |-> "get_space_read_state", space |-> 2, status |-> "returned"]
    /\ calls[4] = [op |-> "list_space_messages", space |-> 2, status |-> "returned"]

\* C16: no step of get_unread_messages_tool, get_unread_conversations_tool or
\* get_space_read_state_tool changes a lastReadTime held by the service,
\* whether the tool returns or fails; the only step that does is the update
\* of mark_space_as_read_tool, and it changes the space it names and no other.
C16_OnlyMarkUpdates ==
    [][spaceReadState' # spaceReadState =>
           /\ pc = "mark_update"
           /\ calls[Len(calls)].op = "update_space_read_state"
           /\ \A s \in Spaces :
                  s # space_name => spaceReadState'[s] = spaceReadState[s]]_vars
\* the aggregator has run over two spaces, one marked as read before and one
\* whose fetch failed
C16_Witness ==
    /\ AggDone /\ Len(scan) = 2
    /\ marked_at[1] # 0 /\ marked_at[2] = 0
    /\ spaceReadState[1] = NowStamp(marked_at[1])
    /\ spaceReadState[2] = BadStr
    /\ scan[2].outcome = "read_state_raised"

\* C17: a lastReadTime that is present and does not parse makes nothing
\* unread: get_unread_messages_tool returns unread_count 0 and no message, and
\* get_unread_conversations_tool counts nothing and emits no summary for that
\* space, whatever the creation times of the messages.
C17_UnparsedLastReadNothingUnread ==
    /\ (GumDone /\ spaceReadState[space_name] = BadStr) =>
          /\ result.unread_count = 0
          /\ result.messages = <<>>
    /\ AggFrame =>
          \A i \in 1..Len(scan) :
              (scan[i].outcome = "checked" /\ spaceReadState[scan[i].name] = BadStr) =>
                  /\ scan[i].unread_count = 0
                  /\ \A k \in 1..Len(emitted) : emitted[k].space_name # scan[i].name
                  /\ AggDone => ~Returned(scan[i].name)
\* the space scanned last has an unparseable lastReadTime and a page of two
\* messages with creation times that parse; the other space gave a summary
C17_Witness ==
    /\ AggDone /\ Len(scan) = 2 /\ Last(scan).outcome = "checked"
    /\ spaceReadState[Last(scan).name] = BadStr
    /\ Len(messages) = 2 /\ ~HasUnparsed(messages)
    /\ Last(scan).unread_count = 0
    /\ Len(result.conversations) = 1

====
